---------------------------- MODULE Spec2Model ----------------------------
(***************************************************************************)
(* Model of the Spectrogram visualiser of src/src/lib.rs: the waterfall    *)
(* cursor and canvas, the piano roll renderer, the capture start-up and    *)
(* the failure paths of draw_frame.                                         *)
(*                                                                         *)
(* A canvas is the list of the draw calls that landed on its bitmap, in    *)
(* the order they were made; a call that an opaque full-height fill_rect   *)
(* covers completely is dropped from the list.  Horizontal coordinates are *)
(* kept in half pixels, so that the 1 pixel wide stroke centred on an      *)
(* integer x (from x - 0.5 to x + 0.5) is exact.  Vertical extents are     *)
(* kept symbolically (the canvas height and the logarithmic note positions *)
(* are not computed).  The calls of one run of the key loop of             *)
(* draw_piano_roll are one entry of the list, KeyLoopCalls gives the calls *)
(* themselves.  Column(cv, c) is what is painted on pixel column c.        *)
(*                                                                         *)
(* Hues are exact rationals: hue255 is 255 times the hue of the code.      *)
(***************************************************************************)
EXTENDS Integers, Sequences, FiniteSets, TLC

\* Piano roll constants (lib.rs 8-14) and the fields set by Spectrogram::new.
MIDI_A4 == 69
MIN_MIDI_NOTE == 21
MAX_MIDI_NOTE == 108
WHITE_KEYS_shifted ==
    <<FALSE, TRUE, FALSE, TRUE, FALSE, TRUE, TRUE, FALSE, TRUE, FALSE, TRUE, FALSE>>
WHITE_KEYS ==
    <<TRUE, FALSE, TRUE, FALSE, TRUE, TRUE, FALSE, TRUE, FALSE, TRUE, FALSE, TRUE>>
piano_roll_width == 40

\* Bounds of the model.
MaxWidth == 43      \* waterfall canvas widths 0..MaxWidth
NumBins == 2        \* analyser.frequency_bin_count() (1024 in the program)
MaxStarts == 1      \* calls of start() per instance

Max(a, b) == IF a >= b THEN a ELSE b
Min(a, b) == IF a <= b THEN a ELSE b

\* Half-pixel horizontal units.
Px(x) == 2 * x

(***************************************************************************)
(* Analysis frames: what get_byte_time_domain_data and                     *)
(* get_byte_frequency_data write into time_data and freq_data.             *)
(***************************************************************************)
Uniform(m) == [k \in 1..NumBins |-> m]
Pattern == [k \in 1..NumBins |-> <<0, 255, 128>>[((k - 1) % 3) + 1]]
AnalysisFrames ==
    { [time |-> Uniform(128), freq |-> Uniform(0)],      \* silence
      [time |-> Pattern,      freq |-> Pattern],
      [time |-> Pattern,      freq |-> Uniform(255)] }

(***************************************************************************)
(* The 2d context: draw calls and what they paint.                         *)
(***************************************************************************)
FULL == <<"full", 0, 0>>                 \* y from 0 to the canvas height
Row(i, n) == <<"row", i, n>>             \* y from i*height/n, height/n high
NoteBand(note, h) == <<"note", note, h>> \* h pixels high, centred on the note's y
LabelBase(note, dy) == <<"label", note, dy>> \* text baseline dy pixels above the note's y
KeyLoop(failAt) == <<"keys", failAt, 0>>  \* the bands and labels of the key loop

DrawOp(kind, css, hue255, x0, x1, band, text) ==
    [kind |-> kind, css |-> css, hue255 |-> hue255, x0 |-> x0, x1 |-> x1,
     band |-> band, text |-> text]

\* ctx.fill_rect(x, y, w, h) with the fill style css; x and w in pixels.
FillRectOp(css, hue255, x, w, band) ==
    DrawOp("fill", css, hue255, Px(x), Px(x + w), band, "")

\* ctx.stroke() of a vertical line at x over the full height: the default
\* line width is 1, so the stroke covers x - 0.5 to x + 0.5.
StrokeLineOp(css, x) == DrawOp("stroke", css, 0, Px(x) - 1, Px(x) + 1, FULL, "")

\* ctx.fill_text(text, x, y) in "10px Arial", left aligned: the text starts at
\* x and each character advances by at most the font size.
FillTextOp(css, text, x, band) ==
    DrawOp("text", css, 0, Px(x), Px(x) + Px(10) * Len(text), band, text)

Opaque(op) == op.kind = "fill" /\ op.band = FULL
Covered(o, op) == op.x0 <= o.x0 /\ o.x1 <= op.x1

\* A draw call clipped to the bitmap of a canvas w pixels wide.
Clip(op, w) == [op EXCEPT !.x0 = Max(op.x0, 0), !.x1 = Min(op.x1, Px(w))]
OnCanvas(op) == op.x0 < op.x1

\* The draw calls ops made in order on the canvas cv, w pixels wide: each call
\* is clipped, one that misses the bitmap leaves nothing, and an opaque
\* full-height fill removes the earlier calls it covers completely.
Paint(cv, w, ops) ==
    LET cs   == SelectSeq([i \in 1..Len(ops) |-> Clip(ops[i], w)], OnCanvas)
        opq  == {i \in 1..Len(cs) : Opaque(cs[i])}
        tag  == [i \in 1..Len(cs) |-> [i |-> i, op |-> cs[i]]]
        kept == SelectSeq(tag, LAMBDA t :
                    \A j \in opq : j <= t.i \/ ~Covered(t.op, cs[j]))
    IN  SelectSeq(cv, LAMBDA o : \A j \in opq : ~Covered(o, cs[j]))
        \o [i \in 1..Len(kept) |-> kept[i].op]

Apply(cv, w, op) == Paint(cv, w, <<op>>)

\* What is painted on pixel column c: the calls touching it since the last
\* opaque fill that hid the whole column, each with the share of the column's
\* width it covers (in half pixels).
Touches(o, c) == o.x0 < Px(c + 1) /\ o.x1 > Px(c)
Hides(o, c) == Opaque(o) /\ o.x0 <= Px(c) /\ o.x1 >= Px(c + 1)
Layer(o, c) ==
    [kind |-> o.kind, css |-> o.css, hue255 |-> o.hue255,
     cover |-> Min(o.x1, Px(c + 1)) - Max(o.x0, Px(c)),
     band |-> o.band, text |-> o.text]
Column(cv, c) ==
    LET t == SelectSeq(cv, LAMBDA o : Touches(o, c))
        h == {i \in 1..Len(t) : Hides(t[i], c)}
        first == IF h = {} THEN 1 ELSE CHOOSE i \in h : \A j \in h : j <= i
    IN  [i \in 1..(Len(t) - first + 1) |-> Layer(t[first + i - 1], c)]

(***************************************************************************)
(* draw_piano_roll (lib.rs 118-169).                                       *)
(***************************************************************************)
IsWhite(note) == WHITE_KEYS[(note % 12) + 1]
HasLabel(note) == (note % 12 = 0) \/ note = MIDI_A4
NoteName(note) ==
    IF note % 12 = 0 THEN "C" \o ToString((note \div 12) - 1) ELSE "A4"

WhiteKeyOp(note) == FillRectOp("#aaa", 0, 0, piano_roll_width, NoteBand(note, 2))
\* piano_roll_width * 0.6
BlackKeyOp(note) ==
    FillRectOp("#666", 0, 0, (piano_roll_width * 6) \div 10, NoteBand(note, 1))
LabelOp(note) == FillTextOp("#fff", NoteName(note), 3, LabelBase(note, 3))

\* The notes at which fill_text is called.
LabelNotes ==
    {n \in MIN_MIDI_NOTE..MAX_MIDI_NOTE : IsWhite(n) /\ HasLabel(n)}

\* The draw calls of one iteration of the key loop; fill_text fails at
\* note failAt (0: never).
NoOp == DrawOp("none", "", 0, 0, 0, FULL, "")
KeyCall(note) == IF IsWhite(note) THEN WhiteKeyOp(note) ELSE BlackKeyOp(note)
LabelCall(note, failAt) ==
    IF IsWhite(note) /\ HasLabel(note) /\ note # failAt THEN LabelOp(note) ELSE NoOp

\* The draw calls of the key loop: every note up to the one where fill_text
\* fails and the `?` leaves the function.
KeyLoopCalls(failAt) ==
    LET last  == IF failAt = 0 THEN MAX_MIDI_NOTE ELSE failAt
        n     == last - MIN_MIDI_NOTE + 1
        slots == [i \in 1..(2 * n) |->
                    LET note == MIN_MIDI_NOTE + ((i - 1) \div 2)
                    IN  IF i % 2 = 1 THEN KeyCall(note) ELSE LabelCall(note, failAt)]
    IN  SelectSeq(slots, LAMBDA o : o.kind # "none")

\* The key loop as one entry of a canvas: all its calls lie within the
\* piano roll width (the widest is a white key band).
KeyLoopOp(failAt) == DrawOp("keys", "", 0, 0, Px(piano_roll_width), KeyLoop(failAt), "")

DividerOp == StrokeLineOp("#555", piano_roll_width)

\* Lines 123-168: background, key loop, divider; when fill_text fails the
\* function returns before the divider.
PianoRollOps(failAt) ==
    <<FillRectOp("#222", 0, 0, piano_roll_width, FULL), KeyLoopOp(failAt)>>
    \o (IF failAt = 0 THEN <<DividerOp>> ELSE <<>>)

draw_piano_roll(cv, w, failAt) ==
    [canvas |-> Paint(cv, w, PianoRollOps(failAt)), ok |-> failAt = 0]

(***************************************************************************)
(* The Spectrogram instance and its collaborators.                         *)
(***************************************************************************)
VARIABLES
    waterfall_width,   \* waterfall_canvas.width(), fixed when the page is built
    waterfall_x,       \* the scroll cursor
    time_data,         \* the sample buffers
    freq_data,
    time_canvas,       \* what each canvas shows
    freq_canvas,
    waterfall_canvas,
    acquisition,       \* the getUserMedia promise: none, pending, granted, rejected
    starts,            \* calls of start() so far
    start_result,      \* what the last start() returned: none, ok, err
    sources,           \* stream sources connected to the analyser
    draw_result,       \* how the last draw_frame ended: none, ok, err, panic
    last_branch,       \* the branch of lines 264-276 the last draw_frame took
    calls,             \* draw_frame calls made: 0, 1, 2 (two or more)
    completed,         \* draw_frame calls that returned Ok: 0, 1, 2 (two or more)
    since_reset,       \* completed calls since the cursor was last put at
                       \* piano_roll_width, the call that put it there included
    start_seen,        \* start_result when draw_frame was last called
    last_fault         \* the platform call that failed in the last draw_frame

vars == <<waterfall_width, waterfall_x, time_data, freq_data, time_canvas,
          freq_canvas, waterfall_canvas, acquisition, starts, start_result,
          sources, draw_result, last_branch, calls, completed, since_reset,
          start_seen, last_fault>>

drawVars == <<waterfall_x, time_data, freq_data, time_canvas, freq_canvas,
              waterfall_canvas, draw_result, last_branch, calls, completed,
              since_reset, start_seen, last_fault>>
startVars == <<acquisition, starts, start_result, sources>>

Widths == {0} \cup ((piano_roll_width - 1)..MaxWidth)

\* Spectrogram::new returned Ok (lib.rs 61-76); the canvases are blank.
Init ==
    /\ waterfall_width \in Widths
    /\ waterfall_x = 0
    /\ time_data = Uniform(0)
    /\ freq_data = Uniform(0)
    /\ time_canvas = <<>>
    /\ freq_canvas = <<>>
    /\ waterfall_canvas = <<>>
    /\ acquisition = "none"
    /\ starts = 0
    /\ start_result = "none"
    /\ sources = 0
    /\ draw_result = "none"
    /\ last_branch = "none"
    /\ calls = 0
    /\ completed = 0
    /\ since_reset = 0
    /\ start_seen = "none"
    /\ last_fault = "none"

(***************************************************************************)
(* draw_frame (lib.rs 171-300).                                            *)
(***************************************************************************)
\* The platform calls of draw_frame that can fail: get_context on each of the
\* three canvases (unwrapped), and fill_text in the first or the second
\* draw_piano_roll (propagated with `?`).
NoFault == [at |-> "none", note |-> 0]
CtxFaults == [at : {"time_ctx", "freq_ctx", "waterfall_ctx"}, note : {0}]
FaultNotes == {n \in LabelNotes : n = MIDI_A4 \/ n < MIN_MIDI_NOTE + 12}
TextFaults == [at : {"text1", "text2"}, note : FaultNotes]
Faults == {NoFault} \cup CtxFaults \cup TextFaults

\* Lines 192-203: the waveform path, y = value / 128 * height at x = k * width / n.
TimePlot(td) ==
    [k \in 1..Len(td) |->
        [cmd |-> IF k = 1 THEN "move_to" ELSE "line_to", xn |-> k - 1, y128 |-> td[k]]]

\* Lines 224-236: the bars, hue = x / width * 360, height = value / 255 * height.
FreqBars(fd) ==
    [k \in 1..Len(fd) |-> [hueN |-> 360 * (k - 1), h255 |-> fd[k]]]

\* Line 264 and line 274.
Wraps_past(x, w) == x > w
Wraps(x, w) == x >= w
Clamps(x) == x < piano_roll_width

\* Lines 273 and 275: where the cursor is put by the wrap and by the clamp.
WrapStart_inside == piano_roll_width - 1
WrapStart == piano_roll_width
ClampStart_unclamped == waterfall_x
ClampStart == piano_roll_width

\* Lines 290-291: hue = 240 * (1 - value / 255), times 255.
Hue255(value) == 240 * (255 - value)

\* Line 288: the value at position i (from 0) of freq_data.iter().rev().
ReversedBin_forward(fd, i) == fd[i + 1]
ReversedBin(fd, i) == fd[Len(fd) - i]

\* Lines 278-294: the column cleared and drawn at x.
WaterfallColumnOps(fd, x) ==
    <<FillRectOp("#000", 0, x, 1, FULL)>> \o
    [j \in 1..Len(fd) |->
        FillRectOp("hsl", Hue255(ReversedBin(fd, j - 1)), x, 1, Row(j - 1, Len(fd)))]

Outcome(result, branch, x, td, tc, fd, fc, wc) ==
    [result |-> result, branch |-> branch, x |-> x, time_data |-> td,
     time_canvas |-> tc, freq_data |-> fd, freq_canvas |-> fc, canvas |-> wc]

draw_frame(a, fault) ==
    IF fault.at = "time_ctx"
    THEN Outcome("panic", "none", waterfall_x, time_data, time_canvas,
                 freq_data, freq_canvas, waterfall_canvas)
    ELSE
    LET td == a.time
        tc == TimePlot(td)
    IN
    IF fault.at = "freq_ctx"
    THEN Outcome("panic", "none", waterfall_x, td, tc, freq_data, freq_canvas,
                 waterfall_canvas)
    ELSE
    LET fd == a.freq
        fc == FreqBars(fd)
    IN
    IF fault.at = "waterfall_ctx"
    THEN Outcome("panic", "none", waterfall_x, td, tc, fd, fc, waterfall_canvas)
    ELSE
    LET w  == waterfall_width
        c1 == Apply(waterfall_canvas, w,
                    FillRectOp("#000", 0, 0, piano_roll_width, FULL))
        p1 == draw_piano_roll(c1, w, IF fault.at = "text1" THEN fault.note ELSE 0)
    IN
    IF ~p1.ok
    THEN Outcome("err", "none", waterfall_x, td, tc, fd, fc, p1.canvas)
    ELSE
    IF Wraps(waterfall_x, w)
    THEN LET c2 == Apply(p1.canvas, w, FillRectOp("#000", 0, 0, w, FULL))
             p2 == draw_piano_roll(c2, w,
                                   IF fault.at = "text2" THEN fault.note ELSE 0)
         IN  IF ~p2.ok
             THEN Outcome("err", "wrap", waterfall_x, td, tc, fd, fc, p2.canvas)
             ELSE Outcome("ok", "wrap", WrapStart + 1, td, tc, fd, fc,
                          Paint(p2.canvas, w, WaterfallColumnOps(fd, WrapStart)))
    ELSE IF Clamps(waterfall_x)
    THEN Outcome("ok", "clamp", ClampStart + 1, td, tc, fd, fc,
                 Paint(p1.canvas, w, WaterfallColumnOps(fd, ClampStart)))
    ELSE Outcome("ok", "advance", waterfall_x + 1, td, tc, fd, fc,
                 Paint(p1.canvas, w, WaterfallColumnOps(fd, waterfall_x)))

Saturate(n) == Min(n + 1, 2)

\* One call of draw_frame with the frame the analyser holds and the platform
\* call that fails in it, if any.  A panic ends the instance.
DrawFrameWith(a, fault) ==
    /\ draw_result # "panic"
    /\ fault.at = "text2" => Wraps(waterfall_x, waterfall_width)
    /\ \E r \in {draw_frame(a, fault)} :
           /\ waterfall_x' = r.x
           /\ time_data' = r.time_data
           /\ time_canvas' = r.time_canvas
           /\ freq_data' = r.freq_data
           /\ freq_canvas' = r.freq_canvas
           /\ waterfall_canvas' = r.canvas
           /\ draw_result' = r.result
           /\ last_branch' = r.branch
           /\ calls' = Saturate(calls)
           /\ completed' = IF r.result = "ok" THEN Saturate(completed) ELSE completed
           /\ since_reset' =
                  IF r.result # "ok" THEN since_reset
                  ELSE IF r.branch = "advance" THEN since_reset + 1 ELSE 1
           /\ start_seen' = start_result
           /\ last_fault' = fault.at
    /\ UNCHANGED <<waterfall_width, startVars>>

DrawFrame == \E a \in AnalysisFrames, fault \in Faults : DrawFrameWith(a, fault)

(***************************************************************************)
(* start (lib.rs 79-95).                                                   *)
(***************************************************************************)
\* Lines 82-87: media_devices() or get_user_media_with_constraints() fails and
\* start returns the error, or the promise is obtained and awaited.
StartCall ==
    /\ draw_result # "panic"
    /\ acquisition # "pending"
    /\ starts < MaxStarts
    /\ starts' = starts + 1
    /\ \E platform \in {"ok", "err"} :
          IF platform = "err"
          THEN /\ start_result' = "err"
               /\ UNCHANGED acquisition
          ELSE /\ acquisition' = "pending"
               /\ UNCHANGED start_result
    /\ UNCHANGED <<waterfall_width, drawVars, sources>>

\* Lines 88-94 once the promise settles: a rejection is returned by `?`; a
\* granted stream is wired to the analyser, and each wiring call may fail.
after_await_connects(settled, wiring, srcs) ==
    IF wiring = "ok" THEN [result |-> "ok", sources |-> srcs + 1]
    ELSE [result |-> "err", sources |-> srcs + 1]
after_await(settled, wiring, srcs) ==
    IF settled = "rejected" THEN [result |-> "err", sources |-> srcs]
    ELSE IF wiring = "ok" THEN [result |-> "ok", sources |-> srcs + 1]
    ELSE [result |-> "err", sources |-> srcs]

StartSettle ==
    /\ draw_result # "panic"
    /\ acquisition = "pending"
    /\ \E settled \in {"granted", "rejected"},
          wiring \in {"ok", "not_a_stream", "source_err", "connect_err"} :
          \E r \in {after_await(settled, wiring, sources)} :
              /\ acquisition' = settled
              /\ start_result' = r.result
              /\ sources' = r.sources
    /\ UNCHANGED <<waterfall_width, drawVars, starts>>

Next == DrawFrame \/ StartCall \/ StartSettle

Spec == Init /\ [][Next]_vars

(***************************************************************************)
(* Properties.                                                             *)
(***************************************************************************)
\* A step of draw_frame: start never changes what draw_frame writes.
DrawStep == drawVars' # drawVars

\* The column a call draws at, from the cursor on entry.
ColumnAt(x, w) ==
    IF x >= w \/ x < piano_roll_width THEN piano_roll_width ELSE x

BlackLayer ==
    [kind |-> "fill", css |-> "#000", hue255 |-> 0, cover |-> 2, band |-> FULL,
     text |-> ""]

WaterfallColumns == piano_roll_width..(waterfall_width - 1)

\* C1, as stated: in every state from construction on, the cursor lies in
\* [pianoRollWidth, canvasWidth).  Stated for the canvases wider than the
\* piano roll: on the others the interval is empty.
C1_CursorInRange ==
    waterfall_width > piano_roll_width =>
       (piano_roll_width <= waterfall_x /\ waterfall_x < waterfall_width)

\* C1, amended: until a draw_frame call has completed the cursor is 0; from
\* then on, between calls, pianoRollWidth < cursor <= canvasWidth (cursor =
\* pianoRollWidth + 1 when the canvas is no wider than the piano roll), so
\* the column just drawn, cursor - 1, lies in [pianoRollWidth, canvasWidth)
\* whenever the canvas is wider than the piano roll.
C1_CursorBounds ==
    /\ completed = 0 => waterfall_x = 0
    /\ completed > 0 =>
          /\ piano_roll_width < waterfall_x
          /\ waterfall_x <= Max(waterfall_width, piano_roll_width + 1)
          /\ waterfall_width > piano_roll_width =>
                (waterfall_x - 1) \in WaterfallColumns

C1_CursorAtEdge ==
    /\ completed > 0
    /\ waterfall_width > piano_roll_width + 1
    /\ waterfall_x = waterfall_width

\* C2, as stated: canvasWidth - pianoRollWidth calls after the cursor was at
\* pianoRollWidth, the cursor is back at pianoRollWidth and the call wrapped.
C2_WrappedAfterWidthCalls ==
    (waterfall_width > piano_roll_width
        /\ since_reset = waterfall_width - piano_roll_width)
    => (waterfall_x = piano_roll_width /\ last_branch = "wrap")

\* C2, amended: k completed calls after the cursor was put at pianoRollWidth
\* (the call that put it there counted) the cursor is pianoRollWidth + k, and
\* k never exceeds canvasWidth - pianoRollWidth: after exactly that many
\* calls the cursor equals canvasWidth, and it is the next completed call
\* that wraps.  That call leaves the cursor at pianoRollWidth + 1 with every
\* column right of pianoRollWidth cleared to black, the piano roll redrawn
\* and the new column at pianoRollWidth.
C2_WrapOnNextCall ==
    /\ since_reset >= 1 => waterfall_x = piano_roll_width + since_reset
    /\ waterfall_width > piano_roll_width =>
          since_reset <= waterfall_width - piano_roll_width
    /\ (waterfall_width > piano_roll_width /\ draw_result = "ok"
           /\ since_reset = waterfall_width - piano_roll_width) =>
          waterfall_x = waterfall_width
    /\ (last_branch = "wrap" /\ draw_result = "ok") =>
          /\ waterfall_x = piano_roll_width + 1
          /\ since_reset = 1
          /\ \A c \in WaterfallColumns :
                c > piano_roll_width =>
                   Column(waterfall_canvas, c) = <<BlackLayer>>
          /\ \A c \in 0..(Min(piano_roll_width, waterfall_width) - 1) :
                Column(waterfall_canvas, c)
                   = Column(Paint(<<>>, waterfall_width,
                                  <<FillRectOp("#222", 0, 0, piano_roll_width, FULL),
                                    KeyLoopOp(0), StrokeLineOp("#555", piano_roll_width)>>), c)

C2_WrapHappened ==
    /\ last_branch = "wrap"
    /\ draw_result = "ok"
    /\ waterfall_width >= piano_roll_width + 2
    /\ completed = 2

\* C3, as stated: a draw_frame call that does not wrap leaves every waterfall
\* column other than the one at the cursor as it was.
C3_HistoryKept ==
    [][ (DrawStep /\ waterfall_x < waterfall_width) =>
           \A c \in WaterfallColumns :
              c # ColumnAt(waterfall_x, waterfall_width) =>
                 Column(waterfall_canvas', c) = Column(waterfall_canvas, c) ]_vars

\* C4, as stated: drawing the piano roll changes no pixel of a column
\* x >= pianoRollWidth, so redrawing it alters no waterfall column.  Stated
\* for the columns that hold something: draw_piano_roll on the canvas as it
\* is (lines 253-258 make this call in every frame) leaves them as they are.
C4_PianoRollConfined ==
    \A c \in WaterfallColumns :
       Column(waterfall_canvas, c) # <<>> =>
          Column(draw_piano_roll(waterfall_canvas, waterfall_width, 0).canvas, c)
             = Column(waterfall_canvas, c)

\* C5: the column a completed call drew (at cursor - 1) holds, over the
\* cleared column, one rectangle per bin: bin k in row N-1-k from the top,
\* a row being canvasHeight/N high, with hue 240 * (1 - magnitude/255), that
\* is 240 for magnitude 0 and 0 for magnitude 255.
C5_ColumnContent ==
    (draw_result = "ok" /\ waterfall_x - 1 < waterfall_width) =>
       LET col == Column(waterfall_canvas, waterfall_x - 1)
           n   == Len(freq_data)
       IN  /\ Len(col) = n + 1
           /\ col[1] = BlackLayer
           /\ \A k \in 0..(n - 1) :
                 LET rows == {i \in 2..(n + 1) : col[i].band = Row(n - 1 - k, n)}
                 IN  /\ Cardinality(rows) = 1
                     /\ \A i \in rows :
                           /\ col[i].kind = "fill" /\ col[i].css = "hsl"
                           /\ col[i].cover = 2
                           /\ col[i].hue255 = (240 * 255) - (240 * freq_data[k + 1])
                           /\ freq_data[k + 1] = 0 => col[i].hue255 = 240 * 255
                           /\ freq_data[k + 1] = 255 => col[i].hue255 = 0

C5_PatternDrawn ==
    /\ draw_result = "ok"
    /\ waterfall_x - 1 < waterfall_width
    /\ freq_data[1] = 0
    /\ freq_data[2] = 255

C7_ContextFailureReturned ==
    last_fault \in {"time_ctx", "freq_ctx", "waterfall_ctx"} => draw_result = "err"

\* C8: among the draw calls of a completed piano roll, note n of 21..108 has
\* a full-width white band exactly when n mod 12 is in {0,2,4,5,7,9,11} and
\* the shorter black band otherwise; it has a label exactly when n mod 12 = 0
\* (the text "C" and n div 12 - 1) or n = 69 (the text "A4"), and these are
\* white keys: note 60 is white and labelled "C4", note 61 black, no label.
KeyLoopDrawn(cv) ==
    \E i \in 1..Len(cv) : cv[i].kind = "keys" /\ cv[i].band = KeyLoop(0)
WhiteBand(calls_, n) ==
    \E i \in 1..Len(calls_) :
       /\ calls_[i].kind = "fill" /\ calls_[i].css = "#aaa"
       /\ calls_[i].band = NoteBand(n, 2)
       /\ calls_[i].x0 = 0 /\ calls_[i].x1 = Px(piano_roll_width)
BlackBand(calls_, n) ==
    \E i \in 1..Len(calls_) :
       /\ calls_[i].kind = "fill" /\ calls_[i].css = "#666"
       /\ calls_[i].band = NoteBand(n, 1)
       /\ calls_[i].x0 = 0 /\ 10 * calls_[i].x1 = 6 * Px(piano_roll_width)
Labels(calls_, n) ==
    {calls_[i].text : i \in {j \in 1..Len(calls_) :
        calls_[j].kind = "text" /\ calls_[j].band[2] = n}}

CompletedKeyLoop == KeyLoopCalls(0)

KeysClassified ==
    LET kc == CompletedKeyLoop
    IN  /\ \A n \in 21..108 :
             /\ WhiteBand(kc, n) <=> (n % 12) \in {0, 2, 4, 5, 7, 9, 11}
             /\ BlackBand(kc, n) <=> ~WhiteBand(kc, n)
             /\ Labels(kc, n) =
                   IF n % 12 = 0 THEN {"C" \o ToString((n \div 12) - 1)}
                   ELSE IF n = 69 THEN {"A4"}
                   ELSE {}
             /\ Labels(kc, n) # {} => WhiteBand(kc, n)
        /\ \A i \in 1..Len(kc) : kc[i].band[2] \in 21..108
        /\ WhiteBand(kc, 60) /\ Labels(kc, 60) = {"C4"}
        /\ BlackBand(kc, 61) /\ Labels(kc, 61) = {}

C8_KeyClassification == KeyLoopDrawn(waterfall_canvas) => KeysClassified

C8_PianoRollDrawn ==
    /\ draw_result = "ok"
    /\ waterfall_width >= piano_roll_width
    /\ KeyLoopDrawn(waterfall_canvas)
    /\ Labels(CompletedKeyLoop, 60) = {"C4"}

\* C10, as stated: the clamp branch is taken only in the first draw_frame
\* call after construction (no later call enters with the cursor below
\* pianoRollWidth and clamps).
C10_ClampOnlyInFirstCall == last_branch = "clamp" => calls = 1

\* C10, amended: the clamp branch is taken only in the first draw_frame call
\* that completes (a call that returned a failure before line 264 leaves the
\* cursor at 0, so the clamping call need not be the first call); once a call
\* has completed the cursor is >= pianoRollWidth on entry of every later
\* call, for every canvas width.
C10_ClampOnlyBeforeCompletion ==
    /\ last_branch = "clamp" => completed = 1
    /\ completed >= 1 => waterfall_x >= piano_roll_width
    /\ (calls >= 1 /\ waterfall_x < piano_roll_width) => draw_result \in {"err", "panic"}

C10_ClampInLaterCall ==
    /\ last_branch = "clamp"
    /\ calls = 2
    /\ completed = 1

=============================================================================
